---------------------------- MODULE Spec2Model ----------------------------
(***************************************************************************)
(* rosserial-rs: the frame codec (src/src/codec.rs) and the link engine    *)
(* (src/src/lib.rs), as a state machine.                                   *)
(*                                                                         *)
(* Bytes are the integers 0..255; a buffer is a sequence of bytes.  The    *)
(* decoder works on the read buffer `src` exactly as codec.rs does: every  *)
(* try_get_* that succeeds removes bytes from the front, and a call that   *)
(* returns Ok(None) keeps what it has removed as removed.                  *)
(***************************************************************************)
EXTENDS Integers, Sequences, FiniteSets, TLC

(***************************************************************************)
(* Bounds of the model.                                                    *)
(***************************************************************************)
\* longest payload of a frame the device or the host puts on the wire
MaxPayload == 2
\* longest run of garbage bytes in front of a frame
MaxPrefix == 2
\* most zero bytes between a payload and its checksum
MaxPad == 2

(***************************************************************************)
(* Program constants.                                                      *)
(***************************************************************************)
HEADER == 255
PROTOCOL_VERSION_2 == 254

(***************************************************************************)
(* Sequences of bytes.                                                     *)
(***************************************************************************)
Take(s, n) == SubSeq(s, 1, n)

Drop(s, n) == SubSeq(s, n + 1, Len(s))

RECURSIVE SeqsUpTo(_, _)
\* every sequence over S of length at most n
SeqsUpTo(S, n) ==
    IF n = 0 THEN {<<>>}
    ELSE LET shorter == SeqsUpTo(S, n - 1)
         IN  shorter \cup {Append(s, b) : s \in shorter, b \in S}

RECURSIVE Zeros(_)
Zeros(k) == IF k = 0 THEN <<>> ELSE <<0>> \o Zeros(k - 1)

\* u16::to_le_bytes
to_le_bytes(v) == <<v % 256, v \div 256>>

\* the index of the first HEADER byte of s, 0 when there is none
RECURSIVE position(_, _)
position(s, i) ==
    IF i > Len(s) THEN 0
    ELSE IF s[i] = HEADER THEN i
    ELSE position(s, i + 1)

\* fn calc_checksum: the running sum is reduced modulo 256 after every byte
RECURSIVE calc_checksum_from(_, _)
calc_checksum_from(bytes, checksum) ==
    IF bytes = <<>> THEN checksum
    ELSE calc_checksum_from(Tail(bytes), (checksum + Head(bytes)) % 256)

calc_checksum(bytes) == calc_checksum_from(bytes, 0)


(***************************************************************************)
(* Messages and the results of a decode call.                              *)
(***************************************************************************)
\* topic: Option<u16> is None (a raw message)
NoTopic == -1

\* struct RosSerialMsg { topic, msg }
RosSerialMsg(topic, msg) == [topic |-> topic, msg |-> msg]

\* Ok(Some(RosSerialMsg { topic: Some(topic_id), msg: data }))
OkSome(topic_id, data) ==
    [tag |-> "Some", topic |-> topic_id, msg |-> data, val |-> 0]

\* Ok(None): more bytes are needed
OkNone == [tag |-> "None", topic |-> NoTopic, msg |-> <<>>, val |-> 0]

\* Err(WrongProtocolVersion(v)), Err(InvalidLengthChecksum(c)),
\* Err(InvalidMessageChecksum(c)), Err(IoError(_))
Err(kind, v) == [tag |-> kind, topic |-> NoTopic, msg |-> <<>>, val |-> v]

CodecErrors ==
    {"WrongProtocolVersion", "InvalidLengthChecksum", "InvalidMessageChecksum"}

\* what a call leaves: its result and the buffer as it stands afterwards
Ret(result, buffer) == [res |-> result, rest |-> buffer]

(***************************************************************************)
(* Decoder: fn decode(&mut self, src: &mut BytesMut).                      *)
(***************************************************************************)
\* try_get_i16_le: the two bytes, little-endian, as a signed 16 bit value
i16_le(lo, hi) ==
    LET u == lo + 256 * hi
    IN  IF u >= 32768 THEN u - 65536 ELSE u

\* src.len() < len as usize: a negative len converts to a value above
\* 2^63, which no buffer length reaches
len_exceeds(n, len) == len < 0 \/ n < len

\* a decoder that takes the byte after the payload as the checksum
skip_no_zeros(s) == s

\* the buffer without its leading zero bytes (the loop of the data checksum)
RECURSIVE skip_zeros(_)
skip_zeros(s) ==
    IF s = <<>> THEN s
    ELSE IF Head(s) # 0 THEN s
    ELSE skip_zeros(Tail(s))

\* from the topic id on (the length checksum was valid)
decode_body(s, len) ==
    IF Len(s) < 2 THEN Ret(OkNone, s)
    ELSE
    LET topic_id == s[1] + 256 * s[2]
        s5 == Drop(s, 2)
    IN  IF len_exceeds(Len(s5), len) THEN Ret(OkNone, s5)
        ELSE
        LET data == Take(s5, len)
            s6 == skip_zeros(Drop(s5, len))
        IN  IF s6 = <<>> THEN Ret(OkNone, s6)
            ELSE
            LET data_checksum == Head(s6)
                checksum == calc_checksum(
                    to_le_bytes(topic_id) \o data \o <<data_checksum>>)
            IN  IF checksum # 255
                THEN Ret(Err("InvalidMessageChecksum", checksum), Tail(s6))
                ELSE Ret(OkSome(topic_id, data), Tail(s6))

\* from the protocol version on (the start marker was consumed)
decode_header(s) ==
    IF s = <<>> THEN Ret(OkNone, s)
    ELSE IF Head(s) # PROTOCOL_VERSION_2
    THEN Ret(Err("WrongProtocolVersion", Head(s)), Tail(s))
    ELSE
    LET s2 == Tail(s)
    IN  IF Len(s2) < 2 THEN Ret(OkNone, s2)
        ELSE
        LET len == i16_le(s2[1], s2[2])
            s3 == Drop(s2, 2)
        IN  IF s3 = <<>> THEN Ret(OkNone, s3)
            ELSE
            LET checksum_filler == Head(s3)
                checksum == calc_checksum(<<s2[1], s2[2], checksum_filler>>)
            IN  IF checksum # 255
                THEN Ret(Err("InvalidLengthChecksum", checksum), Tail(s3))
                ELSE decode_body(Tail(s3), len)

\* a decode that looks at the buffer and leaves it as it is
decode_in_place(b) ==
    LET start_marker == position(b, 1)
    IN  IF start_marker = 0 THEN Ret(OkNone, b)
        ELSE Ret(decode_header(Drop(b, start_marker)).res, b)

\* one call of decode on the buffer b
decode(b) ==
    LET start_marker == position(b, 1)
    IN  IF start_marker = 0 THEN Ret(OkNone, b)
        ELSE decode_header(Drop(b, start_marker))

(***************************************************************************)
(* Encoder: fn encode(&mut self, item: RosSerialMsg, dst: &mut BytesMut).  *)
(***************************************************************************)
\* the byte written after the length: calc_checksum of the length bytes
length_checksum(length_bytes) == calc_checksum(length_bytes)

\* the byte written after the payload
msg_checksum(topic_bytes, msg) == 255 - calc_checksum(topic_bytes \o msg)

\* the bytes encode appends to dst
encode(item) ==
    IF item.topic = NoTopic
    THEN <<HEADER, PROTOCOL_VERSION_2>> \o item.msg
    ELSE LET length_bytes == to_le_bytes(Len(item.msg) % 65536)
             topic_bytes == to_le_bytes(item.topic)
         IN  <<HEADER, PROTOCOL_VERSION_2>> \o length_bytes
                 \o <<length_checksum(length_bytes)>>
                 \o topic_bytes \o item.msg
                 \o <<msg_checksum(topic_bytes, item.msg)>>

(***************************************************************************)
(* What the device puts on the wire.                                       *)
(***************************************************************************)
\* topic ids of the frames on the wire: TIME and two data ids, one above 255
TopicIds == {10, 255, 300}

\* payload bytes: zero, an ordinary byte, the value of the start marker
PayloadBytes == {0, 1, 255}

\* bytes of the garbage in front of a frame
GarbageBytes == {0, 254, 255}

Payloads == SeqsUpTo(PayloadBytes, MaxPayload)

\* the byte that makes the length checksum equation come out at 255
wire_length_checksum(length_bytes) == 255 - calc_checksum(length_bytes)

\* the byte that makes the message checksum equation come out at 255
wire_msg_checksum(topic_id, payload) ==
    255 - calc_checksum(to_le_bytes(topic_id) \o payload)

\* a well-formed version 2 frame, pad zero bytes in front of its checksum,
\* its protocol version, length checksum and message checksum each moved
\* by dv, dl and dm (all 0: the frame is valid)
wire_frame(topic_id, payload, pad, dv, dl, dm) ==
    LET length_bytes == to_le_bytes(Len(payload))
    IN  <<HEADER, (PROTOCOL_VERSION_2 + dv) % 256>> \o length_bytes
            \o <<(wire_length_checksum(length_bytes) + dl) % 256>>
            \o to_le_bytes(topic_id) \o payload \o Zeros(pad)
            \o <<(wire_msg_checksum(topic_id, payload) + dm) % 256>>

\* a valid frame as the device sends it
valid_frame(f) == wire_frame(f.topic, f.msg, 0, 0, 0, 0)

(***************************************************************************)
(* State.                                                                  *)
(***************************************************************************)
VARIABLES
    scn,          \* codec: what is put on the wire (fixed by Init)
    script,       \* engine: the messages the device sends (fixed by Init)
    pc,           \* where the program is
    wire,         \* bytes on the serial line that were not read yet
    src,          \* the read buffer decode works on
    is_readable,  \* the framed stream: the buffer may hold a frame
    eof,          \* the framed stream: the last read returned no bytes
    out,          \* the results decode has returned so far, Ok(None) left out
    split,        \* some read returned less than the wire held
    tx,           \* engine: the writes to the serial line, in order
    publishers,   \* engine: RosSerial.publishers
    subscribers,  \* engine: RosSerial.subscribers
    sends,        \* engine: the calls of Publisher::send, in order
    result,       \* engine: what new or run returned
    blocked,      \* the topic ids whose subscription callback waits in
                  \* blocking_send
    send_errors   \* the errors the subscription callbacks have logged

streamVars == <<wire, src, is_readable, eof, out, split>>

engineVars ==
    <<tx, publishers, subscribers, sends, result, blocked, send_errors>>

vars == <<scn, script, pc, streamVars, engineVars>>

Frames == {RosSerialMsg(t, p) : t \in TopicIds, p \in Payloads}

\* how a frame is damaged: [dv, dl, dm], one of them not 0
Damages ==
    {[kind |-> "WrongProtocolVersion", dv |-> 255, dl |-> 0, dm |-> 0],
     [kind |-> "InvalidLengthChecksum", dv |-> 0, dl |-> 255, dm |-> 0],
     [kind |-> "InvalidMessageChecksum", dv |-> 0, dl |-> 0, dm |-> 255],
     [kind |-> "InvalidMessageChecksum", dv |-> 0, dl |-> 0, dm |-> 1]}

NoDamage == [kind |-> "", dv |-> 0, dl |-> 0, dm |-> 0]

NoFrame == RosSerialMsg(NoTopic, <<>>)

\* the valid frames that follow a damaged one
FollowFrames == {RosSerialMsg(t, p) : t \in {10, 300}, p \in {<<>>, <<1>>}}

\* "encoded": the bytes encode produces for scn.frame
\* "wire": the garbage scn.pre, then the valid frame scn.frame
\* "padded": the valid frame scn.frame, scn.pad zero bytes before its checksum
\* "corrupt": scn.frame damaged by scn.damage, then the valid frame scn.next
Scenarios ==
    {[kind |-> "encoded", pre |-> <<>>, frame |-> f, pad |-> 0,
      damage |-> NoDamage, next |-> NoFrame] : f \in Frames}
    \cup
    {[kind |-> "wire", pre |-> g, frame |-> f, pad |-> 0,
      damage |-> NoDamage, next |-> NoFrame] :
        g \in SeqsUpTo(GarbageBytes, MaxPrefix), f \in Frames}
    \cup
    {[kind |-> "padded", pre |-> <<>>, frame |-> f, pad |-> k,
      damage |-> NoDamage, next |-> NoFrame] : f \in Frames, k \in 1..MaxPad}
    \cup
    {[kind |-> "corrupt", pre |-> <<>>, frame |-> f, pad |-> 0,
      damage |-> d, next |-> v] :
        f \in Frames, d \in Damages, v \in FollowFrames}

\* no scenario: the engine runs
NoScenario ==
    [kind |-> "session", pre |-> <<>>, frame |-> NoFrame, pad |-> 0,
     damage |-> NoDamage, next |-> NoFrame]

\* the bytes of a scenario
wire_bytes(s) ==
    CASE s.kind = "encoded" -> encode(s.frame)
      [] s.kind \in {"wire", "padded"} ->
            s.pre \o wire_frame(s.frame.topic, s.frame.msg, s.pad, 0, 0, 0)
      [] s.kind = "corrupt" ->
            wire_frame(s.frame.topic, s.frame.msg, 0,
                       s.damage.dv, s.damage.dl, s.damage.dm)
                \o valid_frame(s.next)

(***************************************************************************)
(* The framed stream (RosSerialMsgCodec.framed): a read appends what the   *)
(* line delivers to the buffer, and decode is called on the buffer until   *)
(* it returns Ok(None); only then is the line read again.                  *)
(***************************************************************************)
\* a read returns the next n bytes, which are appended to the buffer
read_bytes(n) ==
    /\ ~is_readable
    /\ ~eof
    /\ n \in 1..Len(wire)
    /\ src' = src \o Take(wire, n)
    /\ wire' = Drop(wire, n)
    /\ is_readable' = TRUE
    /\ split' = (split \/ n < Len(wire))
    /\ UNCHANGED <<eof, out>>

\* a read returns no bytes: the stream is at its end
read_eof ==
    /\ ~is_readable
    /\ ~eof
    /\ wire = <<>>
    /\ eof' = TRUE
    /\ is_readable' = TRUE
    /\ UNCHANGED <<wire, src, out, split>>

\* decode_eof: decode, and bytes left over at the end are an error
decode_eof(b) ==
    LET r == decode(b)
    IN  IF r.res.tag = "None" /\ r.rest # <<>>
        THEN Ret(Err("IoError", 0), r.rest)
        ELSE r

\* the call the stream makes on its buffer
stream_decode == IF eof THEN decode_eof(src) ELSE decode(src)

(***************************************************************************)
(* The codec on a byte stream (SpecCodec): the bytes of the scenario are   *)
(* written to the line, arrive in chunks of any sizes, and decode is       *)
(* called after each chunk until it returns Ok(None).                      *)
(***************************************************************************)
InitCodec ==
    /\ scn \in Scenarios
    /\ script = <<>>
    /\ pc = "start"
    /\ wire = <<>>
    /\ src = <<>>
    /\ is_readable = FALSE
    /\ eof = FALSE
    /\ out = <<>>
    /\ split = FALSE
    /\ tx = <<>>
    /\ publishers = {}
    /\ subscribers = {}
    /\ sends = <<>>
    /\ result = "none"
    /\ blocked = {}
    /\ send_errors = 0

\* the sender writes the bytes of the scenario
Transmit ==
    /\ pc = "start"
    /\ pc' = "stream"
    /\ wire' = wire_bytes(scn)
    /\ UNCHANGED <<scn, script, src, is_readable, eof, out, split, engineVars>>

Feed(n) ==
    /\ pc = "stream"
    /\ read_bytes(n)
    /\ UNCHANGED <<scn, script, pc, engineVars>>

FeedEof ==
    /\ pc = "stream"
    /\ read_eof
    /\ UNCHANGED <<scn, script, pc, engineVars>>

\* one call of decode (of decode_eof at the end of the stream). The caller
\* goes on calling decode after an error, on the buffer as the failed call
\* left it.
DecodeCall ==
    /\ pc = "stream"
    /\ is_readable
    /\ LET r == stream_decode
       IN  /\ src' = r.rest
           /\ IF r.res.tag = "None"
              THEN /\ is_readable' = FALSE
                   /\ out' = out
              ELSE /\ is_readable' = (r.res.tag # "IoError")
                   /\ out' = Append(out, r.res)
    /\ UNCHANGED <<scn, script, pc, wire, eof, split, engineVars>>

NextCodec ==
    \/ Transmit
    \/ \E n \in 1..Len(wire) : Feed(n)
    \/ FeedEof
    \/ DecodeCall

SpecCodec == InitCodec /\ [][NextCodec]_vars

(***************************************************************************)
(* Frames with long payloads (SpecLarge): one valid frame whose payload    *)
(* is scn.len zero bytes is written to the line, read in one piece and     *)
(* given to decode.                                                        *)
(***************************************************************************)
\* the payload lengths: short ones, and the ones from 2^15 on, up to the
\* largest a u16 holds
LargeLengths == {0, 1, 2, 3, 20, 40, 32768, 32769, 49152, 65535}

\* a payload of n zero bytes
zero_payload(n) == [i \in 1..n |-> 0]

\* a well-formed version 2 frame with a payload of len zero bytes (zero
\* bytes add nothing to the message checksum)
large_frame(topic_id, len) ==
    <<HEADER, PROTOCOL_VERSION_2>> \o to_le_bytes(len)
        \o <<wire_length_checksum(to_le_bytes(len))>>
        \o to_le_bytes(topic_id) \o zero_payload(len)
        \o <<wire_msg_checksum(topic_id, <<>>)>>

\* scn.frame.topic is the topic id of the frame, scn.len the length of its
\* payload
LargeScenarios ==
    {[kind |-> "large", pre |-> <<>>, frame |-> RosSerialMsg(t, <<>>),
      pad |-> 0, damage |-> NoDamage, next |-> NoFrame, len |-> n] :
        t \in TopicIds, n \in LargeLengths}

InitLarge ==
    /\ scn \in LargeScenarios
    /\ script = <<>>
    /\ pc = "start"
    /\ wire = <<>>
    /\ src = <<>>
    /\ is_readable = FALSE
    /\ eof = FALSE
    /\ out = <<>>
    /\ split = FALSE
    /\ tx = <<>>
    /\ publishers = {}
    /\ subscribers = {}
    /\ sends = <<>>
    /\ result = "none"
    /\ blocked = {}
    /\ send_errors = 0

\* the sender writes the frame
TransmitLarge ==
    /\ pc = "start"
    /\ pc' = "stream"
    /\ wire' = large_frame(scn.frame.topic, scn.len)
    /\ UNCHANGED <<scn, script, src, is_readable, eof, out, split, engineVars>>

\* a read returns all the bytes on the line
FeedAll == Feed(Len(wire))

NextLarge ==
    \/ TransmitLarge
    \/ FeedAll
    \/ DecodeCall

SpecLarge == InitLarge /\ [][NextLarge]_vars

(***************************************************************************)
(* The link engine (src/src/lib.rs).                                       *)
(***************************************************************************)
\* most messages the device sends in a session
MaxMsgs == 2

\* rosserial_msgs::TopicInfo: the control topic ids
ID_PUBLISHER == 0
ID_SUBSCRIBER == 1
ID_SERVICE_SERVER == 2
ID_SERVICE_CLIENT == 4
ID_PARAMETER_REQUEST == 6
ID_LOG == 7
ID_TIME == 10

\* the payload of the request-topics probe
RequestTopicsBytes == <<0, 0, 255, 0, 0, 255>>

\* u32::to_le_bytes
to_le_bytes32(v) ==
    <<v % 256, (v \div 256) % 256, (v \div 65536) % 256, v \div 16777216>>

\* the readings of rosrust::wall_time::now()
WallTimes == {[sec |-> 1, nsec |-> 2], [sec |-> 258, nsec |-> 0]}

\* Time::encode_vec: sec and nsec, each a little-endian u32
encode_time(time) == to_le_bytes32(time.sec) \o to_le_bytes32(time.nsec)

\* RequestParamRes { floats: [], ints: [], strings: [] }.encode_vec: three
\* empty arrays, each its u32 length
encode_param_res == to_le_bytes32(0) \o to_le_bytes32(0) \o to_le_bytes32(0)

\* The serialized messages of rosserial_msgs are abbreviated: a TopicInfo
\* is its topic_id (u16, little-endian) and one byte that stands for
\* topic_name, message_type, md5sum and buffer_size; a Log is its level
\* byte; a RequestParamReq is one byte that stands for the name. A payload
\* too short for its message does not decode.
topic_info_decodes(msg) == Len(msg) >= 3

topic_info_decode(msg) ==
    [topic_id |-> msg[1] + 256 * msg[2], topic_name |-> msg[3]]

log_decodes(msg) == Len(msg) >= 1

request_param_decodes(msg) == Len(msg) >= 1

\* what the device sends: valid frames (11 is ID_TX_STOP, 100 and 202 are
\* data ids), and damaged ones
DeviceFrames ==
    {RosSerialMsg(ID_TIME, <<>>),
     RosSerialMsg(ID_PUBLISHER, <<100, 0, 1>>),
     RosSerialMsg(ID_PUBLISHER, <<>>),
     RosSerialMsg(ID_SUBSCRIBER, <<101, 0, 2>>),
     RosSerialMsg(ID_PARAMETER_REQUEST, <<1>>),
     RosSerialMsg(ID_LOG, <<2>>),
     RosSerialMsg(11, <<>>),
     RosSerialMsg(ID_SERVICE_SERVER + ID_SUBSCRIBER, <<>>),
     RosSerialMsg(ID_SERVICE_CLIENT + ID_PUBLISHER, <<>>),
     RosSerialMsg(100, <<7>>),
     RosSerialMsg(202, <<>>)}

DeviceMsgs ==
    {[frame |-> f, damage |-> NoDamage] : f \in DeviceFrames}
    \cup
    {[frame |-> RosSerialMsg(ID_TIME, <<>>), damage |-> d] :
        d \in {x \in Damages : x.dm # 1}}

\* the bytes of one message of the device
device_bytes(m) ==
    wire_frame(m.frame.topic, m.frame.msg, 0,
               m.damage.dv, m.damage.dl, m.damage.dm)

RECURSIVE script_bytes(_)
script_bytes(ms) ==
    IF ms = <<>> THEN <<>>
    ELSE device_bytes(Head(ms)) \o script_bytes(Tail(ms))

\* what the environment decides during one dispatch: whether the write to
\* the serial line and the calls into rosrust succeed, and the wall time
\* (a handler meets one of the three, so one failure at a time is enough)
Envs ==
    {[io |-> TRUE, ros |-> TRUE, time |-> t] : t \in WallTimes}
    \cup
    {[io |-> i, ros |-> ~i, time |-> [sec |-> 1, nsec |-> 2]] : i \in BOOLEAN}

\* the engine's own state, and whether the handler returned Ok
\* (subscribed: the handler has made a subscription)
Engine(ok, t, p, s, n) ==
    [ok |-> ok, tx |-> t, publishers |-> p, subscribers |-> s, sends |-> n,
     subscribed |-> FALSE]

\* self.serial.send(item).await?
serial_send(st, item, env) ==
    IF env.io
    THEN [st EXCEPT !.tx = Append(st.tx, encode(item))]
    ELSE [st EXCEPT !.ok = FALSE]

\* a send_raw that sends its bytes as the payload of a regular frame
send_raw_framed(st, data, env) ==
    serial_send(st, RosSerialMsg(ID_PUBLISHER, data), env)

\* async fn send_raw
send_raw(st, data, env) == serial_send(st, RosSerialMsg(NoTopic, data), env)

\* async fn request_topics
request_topics(st, env) == send_raw(st, RequestTopicsBytes, env)

\* async fn handle_time_request
handle_time_request(st, env) ==
    serial_send(st, RosSerialMsg(ID_TIME, encode_time(env.time)), env)

\* async fn handle_logging_request
handle_logging_request(st, msg) ==
    IF log_decodes(msg.msg) THEN st ELSE [st EXCEPT !.ok = FALSE]

\* an insert that keeps the entry the key has (HashMap::entry().or_insert)
insert_keeps(map, key, value) ==
    IF \E e \in map : e.id = key THEN map
    ELSE map \cup {[id |-> key, name |-> value]}

\* HashMap::insert: the entry of the key is replaced
insert(map, key, value) ==
    {e \in map : e.id # key} \cup {[id |-> key, name |-> value]}

\* async fn setup_publisher
setup_publisher(st, msg, env) ==
    IF ~topic_info_decodes(msg.msg) THEN [st EXCEPT !.ok = FALSE]
    ELSE LET topic_info == topic_info_decode(msg.msg)
         IN  IF ~env.ros THEN [st EXCEPT !.ok = FALSE]
             ELSE [st EXCEPT !.publishers =
                      insert(st.publishers, topic_info.topic_id,
                             topic_info.topic_name)]

\* most messages a channel holds (mpsc::channel(1000), scaled down)
MaxQueue == 1

\* the payloads of the messages that arrive from the ROS network
NetPayloads == {<<5>>}

\* mpsc::channel and self.subscribers.insert(topic_id, rx): the receiver
\* of a new, empty channel replaces the entry of the key
insert_rx(map, key, value) ==
    {e \in map : e.id # key}
        \cup {[id |-> key, name |-> value, queue |-> <<>>]}

\* async fn setup_subscriber: the receiver is inserted before
\* rosrust::subscribe is called
setup_subscriber(st, msg, env) ==
    IF ~topic_info_decodes(msg.msg) THEN [st EXCEPT !.ok = FALSE]
    ELSE LET topic_info == topic_info_decode(msg.msg)
             inserted == [st EXCEPT !.subscribers =
                             insert_rx(st.subscribers, topic_info.topic_id,
                                       topic_info.topic_name)]
         IN  IF ~env.ros THEN [inserted EXCEPT !.ok = FALSE]
             ELSE [inserted EXCEPT !.subscribed = TRUE]

\* the topic ids whose receiver the dispatch of msg drops: insert replaces
\* the receiver of a subscription that is advertised again
rx_dropped(msg) ==
    IF msg.topic = ID_SUBSCRIBER /\ topic_info_decodes(msg.msg)
    THEN {topic_info_decode(msg.msg).topic_id}
    ELSE {}

\* async fn handle_parameter_request
handle_parameter_request(st, msg, env) ==
    IF ~request_param_decodes(msg.msg) THEN [st EXCEPT !.ok = FALSE]
    ELSE serial_send(st, RosSerialMsg(ID_PARAMETER_REQUEST, encode_param_res),
                     env)

\* a data arm that records its sends last in, first out
handle_data_lifo(st, msg, env) ==
    IF \E e \in st.publishers : e.id = msg.topic
    THEN LET publisher == CHOOSE e \in st.publishers : e.id = msg.topic
         IN  IF env.ros
             THEN [st EXCEPT !.sends =
                      <<[publisher |-> publisher.name,
                         id |-> msg.topic, msg |-> msg.msg]>> \o st.sends]
             ELSE [st EXCEPT !.ok = FALSE]
    ELSE send_raw(st, RequestTopicsBytes, env)

\* a data arm that only warns about an id without a publisher
handle_data_silent(st, msg, env) ==
    IF \E e \in st.publishers : e.id = msg.topic
    THEN LET publisher == CHOOSE e \in st.publishers : e.id = msg.topic
         IN  IF env.ros
             THEN [st EXCEPT !.sends =
                      Append(st.sends, [publisher |-> publisher.name,
                                        id |-> msg.topic, msg |-> msg.msg])]
             ELSE [st EXCEPT !.ok = FALSE]
    ELSE st

\* the arm Some(t) of handle_msg: a data id
handle_data(st, msg, env) ==
    IF \E e \in st.publishers : e.id = msg.topic
    THEN LET publisher == CHOOSE e \in st.publishers : e.id = msg.topic
         IN  IF env.ros
             THEN [st EXCEPT !.sends =
                      Append(st.sends, [publisher |-> publisher.name,
                                        id |-> msg.topic, msg |-> msg.msg])]
             ELSE [st EXCEPT !.ok = FALSE]
    ELSE request_topics(st, env)

\* async fn handle_msg
handle_msg(st, msg, env) ==
    CASE msg.topic = ID_TIME -> handle_time_request(st, env)
      [] msg.topic = ID_LOG -> handle_logging_request(st, msg)
      [] msg.topic = ID_PUBLISHER -> setup_publisher(st, msg, env)
      [] msg.topic = ID_SUBSCRIBER -> setup_subscriber(st, msg, env)
      [] msg.topic = ID_PARAMETER_REQUEST ->
            handle_parameter_request(st, msg, env)
      [] msg.topic \in {ID_SERVICE_SERVER + ID_PUBLISHER,
                        ID_SERVICE_SERVER + ID_SUBSCRIBER,
                        ID_SERVICE_CLIENT + ID_PUBLISHER,
                        ID_SERVICE_CLIENT + ID_SUBSCRIBER} -> st
      [] msg.topic = NoTopic -> st
      [] OTHER -> handle_data(st, msg, env)

\* the engine's state as a record, and back
engine_state == Engine(TRUE, tx, publishers, subscribers, sends)

engine_becomes(st) ==
    /\ tx' = st.tx
    /\ publishers' = st.publishers
    /\ subscribers' = st.subscribers
    /\ sends' = st.sends

Init ==
    /\ scn = NoScenario
    /\ script \in SeqsUpTo(DeviceMsgs, MaxMsgs)
    /\ pc = "new"
    /\ wire = script_bytes(script)
    /\ src = <<>>
    /\ is_readable = FALSE
    /\ eof = FALSE
    /\ out = <<>>
    /\ split = FALSE
    /\ tx = <<>>
    /\ publishers = {}
    /\ subscribers = {}
    /\ sends = <<>>
    /\ result = "none"
    /\ blocked = {}
    /\ send_errors = 0

\* RosSerial::new: the registries are empty and the probe is sent
New ==
    /\ pc = "new"
    /\ \E env \in Envs :
        LET st == request_topics(Engine(TRUE, tx, {}, {}, sends), env)
        IN  /\ engine_becomes(st)
            /\ pc' = IF st.ok THEN "run" ELSE "done"
            /\ result' = IF st.ok THEN result ELSE "Err"
    /\ UNCHANGED <<scn, script, streamVars, blocked, send_errors>>

\* run, self.serial.next(): the serial line delivers n bytes
SerialRead(n) ==
    /\ pc = "run"
    /\ read_bytes(n)
    /\ UNCHANGED <<scn, script, pc, engineVars>>

\* run, self.serial.next(): the serial line is at its end
SerialEof ==
    /\ pc = "run"
    /\ read_eof
    /\ UNCHANGED <<scn, script, pc, engineVars>>

\* what run returns when the stream yields item: the loop
\* `while let Some(Ok(msg))` ends on anything but Some(Ok(msg)), and
\* Ok(()) follows it
run_returns(item) == "Ok"

\* run, self.serial.next(): the read fails, the stream yields
\* Some(Err(IoError)) and the loop ends
SerialIoError ==
    /\ pc = "run"
    /\ ~is_readable
    /\ ~eof
    /\ out' = Append(out, Err("IoError", 0))
    /\ pc' = "done"
    /\ result' = run_returns(Err("IoError", 0))
    /\ UNCHANGED <<scn, script, wire, src, is_readable, eof, split,
                   tx, publishers, subscribers, sends, blocked, send_errors>>

\* run: the stream calls decode; a message is dispatched by handle_msg, an
\* error or the end of the stream ends the loop. setup_subscriber waits
\* for the blocking task in which the subscription is made (pc =
\* "subscribing"). A callback that waits on a channel whose receiver the
\* dispatch drops gets an error from blocking_send and logs it.
RunNext ==
    /\ pc = "run"
    /\ is_readable
    /\ LET r == stream_decode
       IN  /\ src' = r.rest
           /\ CASE r.res.tag = "None" ->
                    /\ is_readable' = FALSE
                    /\ out' = out
                    /\ pc' = IF eof THEN "done" ELSE "run"
                    /\ result' = IF eof THEN run_returns(r.res) ELSE result
                    /\ UNCHANGED <<tx, publishers, subscribers, sends,
                                   blocked, send_errors>>
                [] r.res.tag = "Some" ->
                    \E env \in Envs :
                        LET msg == RosSerialMsg(r.res.topic, r.res.msg)
                            st == handle_msg(engine_state, msg, env)
                            closed == rx_dropped(msg) \cap blocked
                        IN  /\ engine_becomes(st)
                            /\ blocked' = blocked \ closed
                            /\ send_errors' = send_errors + Cardinality(closed)
                            /\ is_readable' = TRUE
                            /\ out' = Append(out, r.res)
                            /\ pc' = IF ~st.ok THEN "done"
                                     ELSE IF st.subscribed THEN "subscribing"
                                     ELSE "run"
                            /\ result' = IF st.ok THEN result ELSE "Err"
                [] OTHER ->
                    /\ is_readable' = TRUE
                    /\ out' = Append(out, r.res)
                    /\ pc' = "done"
                    /\ result' = run_returns(r.res)
                    /\ UNCHANGED <<tx, publishers, subscribers, sends,
                                   blocked, send_errors>>
    /\ UNCHANGED <<scn, script, wire, eof, split>>

\* the topic id of the subscription setup_subscriber is making
subscribing_id == topic_info_decode(out[Len(out)].msg).topic_id

\* the callback of the subscription (lib.rs:275-279), called by rosrust
\* with a message of the network while the subscription exists:
\* tx.blocking_send(msg) puts the message in the channel, and waits when
\* the channel is full
Callback(p) ==
    /\ pc = "subscribing"
    /\ subscribing_id \notin blocked
    /\ LET rx == CHOOSE e \in subscribers : e.id = subscribing_id
       IN  IF Len(rx.queue) < MaxQueue
           THEN /\ subscribers' =
                     (subscribers \ {rx})
                         \cup {[rx EXCEPT !.queue = Append(@, p)]}
                /\ blocked' = blocked
           ELSE /\ subscribers' = subscribers
                /\ blocked' = blocked \cup {subscribing_id}
    /\ UNCHANGED <<scn, script, pc, streamVars, tx, publishers, sends, result,
                   send_errors>>

\* setup_subscriber goes on: the blocking task has returned the
\* rosrust::Subscriber, `??` yields it and the statement drops it, which
\* ends the subscription; the handler returns Ok(())
SubscriberDropped ==
    /\ pc = "subscribing"
    /\ pc' = "run"
    /\ UNCHANGED <<scn, script, streamVars, engineVars>>

\* main: ctrl_c completes first in select! and the future of run is
\* dropped where it waits, for the serial line or for the blocking task
Cancel ==
    /\ \/ pc = "run" /\ ~is_readable
       \/ pc = "subscribing"
    /\ pc' = "done"
    /\ result' = "Cancelled"
    /\ UNCHANGED <<scn, script, streamVars, tx, publishers, subscribers, sends,
                   blocked, send_errors>>

Next ==
    \/ New
    \/ \E n \in 1..Len(wire) : SerialRead(n)
    \/ SerialEof
    \/ SerialIoError
    \/ RunNext
    \/ \E p \in NetPayloads : Callback(p)
    \/ SubscriberDropped
    \/ Cancel

Spec == Init /\ [][Next]_vars

(***************************************************************************)
(* Sessions of advertisements and data frames (SpecRoute): the engine as   *)
(* above, the device sends up to MaxRoute messages of RouteFrames.         *)
(***************************************************************************)
\* most messages the device sends in such a session
MaxRoute == 3

\* topic 100 is advertised under two names, topic 101 under one; two
\* data frames of topic 100
RouteFrames ==
    {RosSerialMsg(ID_PUBLISHER, <<100, 0, 1>>),
     RosSerialMsg(ID_PUBLISHER, <<100, 0, 3>>),
     RosSerialMsg(ID_PUBLISHER, <<101, 0, 2>>),
     RosSerialMsg(100, <<7>>),
     RosSerialMsg(100, <<8>>)}

RouteMsgs == {[frame |-> f, damage |-> NoDamage] : f \in RouteFrames}

InitRoute ==
    /\ scn = NoScenario
    /\ script \in SeqsUpTo(RouteMsgs, MaxRoute)
    /\ pc = "new"
    /\ wire = script_bytes(script)
    /\ src = <<>>
    /\ is_readable = FALSE
    /\ eof = FALSE
    /\ out = <<>>
    /\ split = FALSE
    /\ tx = <<>>
    /\ publishers = {}
    /\ subscribers = {}
    /\ sends = <<>>
    /\ result = "none"
    /\ blocked = {}
    /\ send_errors = 0

\* no subscription is advertised in these sessions
NextRoute ==
    \/ New
    \/ \E n \in 1..Len(wire) : SerialRead(n)
    \/ SerialEof
    \/ SerialIoError
    \/ RunNext
    \/ Cancel

SpecRoute == InitRoute /\ [][NextRoute]_vars

(***************************************************************************)
(* Properties of the codec (SpecCodec).                                    *)
(***************************************************************************)
\* every byte was read and decode has returned Ok(None) on what is left
Drained == pc = "stream" /\ wire = <<>> /\ ~is_readable

\* the stream has ended: decode_eof returned Ok(None) or the final error
Ended == pc = "stream" /\ eof /\ ~is_readable

\* the frame of the scenario, as decode returns it
TheFrame == OkSome(scn.frame.topic, scn.frame.msg)

\* the frame that follows the damaged one, as decode returns it
TheNext == OkSome(scn.next.topic, scn.next.msg)

\* the checksum byte of the scenario's frame is not zero
ChecksumNotZero == wire_msg_checksum(scn.frame.topic, scn.frame.msg) # 0

\* the results of the scenario's frame without padding, decoded on its own
Unpadded ==
    LET r == decode(valid_frame(scn.frame))
    IN  IF r.res.tag = "None" THEN <<>> ELSE <<r.res>>

\* C1: round trip. The bytes encode produces for a frame with topic id
\* t >= 100, given to decode in one piece, yield exactly that frame.
C1_RoundTrip ==
    (scn.kind = "encoded" /\ scn.frame.topic >= 100 /\ ~split /\ Drained)
        => out = <<TheFrame>>

\* the bytes of an encoded regular frame are all on the wire
EncodedOnWire ==
    scn.kind = "encoded" /\ Len(wire) = Len(scn.frame.msg) + 8

\* C2: checksum correctness. In every regular frame encode emits,
\* (len_lo + len_hi + len_cksum) mod 256 = 255 and
\* (tid_lo + tid_hi + payload bytes + msg_cksum) mod 256 = 255.
C2_ChecksumsAre255 ==
    EncodedOnWire =>
        /\ (wire[3] + wire[4] + wire[5]) % 256 = 255
        /\ calc_checksum(Drop(wire, 5)) = 255

\* C3: incremental feed. The bytes of one valid frame, read in chunks of
\* any sizes with decode called after each chunk, yield that frame exactly
\* once: never an error or another frame, and the frame once all is read.
\* (Stated for the frames whose checksum byte is not zero.)
C3_IncrementalFeed ==
    (scn.kind = "wire" /\ scn.pre = <<>> /\ ChecksumNotZero)
        => /\ out \in {<<>>, <<TheFrame>>}
           /\ Drained => out = <<TheFrame>>

\* C4: resynchronization. Garbage followed by a valid frame F, given to
\* decode in one piece: the calls of decode produce F and have consumed
\* exactly the garbage and F. (Stated for checksum bytes that are not zero.)
C4_Resynchronization ==
    (scn.kind = "wire" /\ ChecksumNotZero /\ ~split /\ Drained)
        => /\ \E i \in 1..Len(out) : out[i] = TheFrame
           /\ src = <<>>

\* C5: a stream that is exactly one well-formed version 2 frame yields
\* exactly one item, that frame, and then ends with no error.
C5_OneFrameStream ==
    (scn.kind = "wire" /\ scn.pre = <<>> /\ ~split /\ Ended)
        => out = <<TheFrame>>

\* C6: zero padding. A frame with k zero bytes between its payload and its
\* checksum byte decodes to what the frame without the padding decodes to,
\* which is the frame itself when its checksum byte is not zero; all of
\* the padded frame is consumed.
C6_ZeroPadding ==
    (scn.kind = "padded" /\ ~split /\ Drained)
        => /\ out = Unpadded
           /\ ChecksumNotZero => out = <<TheFrame>>
           /\ src = <<>>

\* C6 happens: a frame with two zero bytes of padding was decoded
C6_Witness ==
    /\ scn.kind = "padded" /\ scn.pad >= 2 /\ ~split /\ Drained
    /\ out = <<TheFrame>>

\* C7: a damaged frame (wrong version, wrong length checksum or wrong
\* message checksum) followed at once by a valid frame V, given to decode
\* in one piece: the first result is the error of the damage, and a later
\* call of decode yields V.
C7_CorruptThenValid ==
    (scn.kind = "corrupt" /\ ~split /\ Drained)
        => /\ out # <<>>
           /\ out[1].tag = scn.damage.kind
           /\ \E i \in 2..Len(out) : out[i] = TheNext

(***************************************************************************)
(* Properties of the link engine (Spec).                                   *)
(***************************************************************************)
\* the step reports a codec error: decode has returned Err(...)
ReportsCodecError ==
    /\ Len(out') = Len(out) + 1
    /\ out'[Len(out')].tag \in CodecErrors

\* C8: codec errors are not fatal. The step in which the decoder reports
\* WrongProtocolVersion, InvalidLengthChecksum or InvalidMessageChecksum
\* leaves run running: run does not return because of the codec error.
C8_CodecErrorNotFatal == [][ReportsCodecError => pc' = "run"]_vars

\* C9: an I/O error is fatal. When the stream yields an I/O error, run
\* returns an error result, never a success result.
C9_IoErrorIsFatal ==
    (pc = "done" /\ out # <<>> /\ out[Len(out)].tag = "IoError")
        => result = "Err"

\* the request-topics probe as it is on the wire
ProbeOnWire == <<255, 254, 0, 0, 255, 0, 0, 255>>

\* something was read from the serial line, or a read was tried
SomethingRead ==
    wire # script_bytes(script) \/ src # <<>> \/ out # <<>> \/ eof

\* C10: negotiation probe. The first bytes written to the wire are
\* FF FE 00 00 FF 00 00 FF, and they are written before anything is read
\* and before any other frame is sent.
C10_ProbeFirst ==
    (SomethingRead \/ tx # <<>>) => (tx # <<>> /\ Head(tx) = ProbeOnWire)

\* C10 happens: after the probe a frame was read and a second write made
C10_Witness ==
    /\ Len(tx) >= 2 /\ Head(tx) = ProbeOnWire
    /\ \E i \in 1..Len(out) : out[i].tag = "Some"

\* the ids handle_msg has an arm for
ControlIds ==
    {ID_TIME, ID_LOG, ID_PUBLISHER, ID_SUBSCRIBER, ID_PARAMETER_REQUEST,
     ID_SERVICE_SERVER + ID_PUBLISHER, ID_SERVICE_SERVER + ID_SUBSCRIBER,
     ID_SERVICE_CLIENT + ID_PUBLISHER, ID_SERVICE_CLIENT + ID_SUBSCRIBER}

\* the step dispatches the frame the stream has just yielded
Dispatches == Len(out') = Len(out) + 1 /\ out'[Len(out')].tag = "Some"

\* the frame the step dispatches
Dispatched == out'[Len(out')]

\* the step dispatches a frame with a data id that has no publisher
\* (11, ID_TX_STOP, is reserved and not a data id)
DispatchesUnknown ==
    /\ Dispatches
    /\ Dispatched.topic \notin ControlIds \cup {11}
    /\ ~\E e \in publishers : e.id = Dispatched.topic

\* C11 as it is written: whenever a frame arrives whose topic id is a data
\* id with no registered publisher, the engine re-sends the probe, makes no
\* adapter send, leaves the registry unchanged and keeps running.
C11_UnknownTopicKeepsRunning ==
    [][DispatchesUnknown =>
        /\ tx' = Append(tx, ProbeOnWire)
        /\ sends' = sends
        /\ publishers' = publishers /\ subscribers' = subscribers
        /\ pc' = "run"]_vars

\* C11, amended: whenever a frame arrives whose topic id is a data id with
\* no registered publisher, the engine makes no adapter send and leaves the
\* registry unchanged; it re-sends the probe and keeps running, unless the
\* write of the probe to the serial line fails: then nothing is written
\* and run returns the error.
C11_UnknownTopic ==
    [][DispatchesUnknown =>
        /\ sends' = sends
        /\ publishers' = publishers /\ subscribers' = subscribers
        /\ \/ tx' = Append(tx, ProbeOnWire) /\ pc' = "run"
           \/ tx' = tx /\ pc' = "done" /\ result' = "Err"]_vars

\* C11 happens: the frame with id 202 was dispatched before any
\* registration, the probe was sent again and run goes on
C11_Witness ==
    /\ pc = "run" /\ out # <<>> /\ out[Len(out)] = OkSome(202, <<>>)
    /\ publishers = {}
    /\ tx = <<ProbeOnWire, ProbeOnWire>>

\* the items but the last
Front(s) == Take(s, Len(s) - 1)

\* item f of the stream is an advertisement of a publisher that decodes
IsAdvert(f) ==
    f.tag = "Some" /\ f.topic = ID_PUBLISHER /\ topic_info_decodes(f.msg)

\* the name topic id n was most recently advertised under in the items
\* of the stream, -1 when it was not advertised
RECURSIVE registered_name(_, _)
registered_name(items, n) ==
    IF items = <<>> THEN -1
    ELSE LET f == items[Len(items)]
         IN  IF IsAdvert(f) /\ topic_info_decode(f.msg).topic_id = n
             THEN topic_info_decode(f.msg).topic_name
             ELSE registered_name(Front(items), n)

\* the topic ids advertised in the items of the stream
AdvertisedIds(items) ==
    {topic_info_decode(items[i].msg).topic_id :
        i \in {j \in 1..Len(items) : IsAdvert(items[j])}}

\* the adapter sends the items of the stream call for: each data frame
\* whose id was advertised before it, to the publisher of the most recent
\* advertisement, with the payload of the frame
RECURSIVE expected_sends(_)
expected_sends(items) ==
    IF items = <<>> THEN <<>>
    ELSE LET f == items[Len(items)]
             before == Front(items)
         IN  IF /\ f.tag = "Some"
                /\ f.topic \notin ControlIds
                /\ registered_name(before, f.topic) # -1
             THEN Append(expected_sends(before),
                         [publisher |-> registered_name(before, f.topic),
                          id |-> f.topic, msg |-> f.msg])
             ELSE expected_sends(before)

\* C12: routing. A data frame with topic id n and payload P is passed
\* unchanged to exactly the publisher most recently registered under n; a
\* re-advertisement of an id replaces its entry; no payload is sent to a
\* publisher registered under another id. (When a handler has failed,
\* result = "Err", the last frame dispatched is the one that failed.)
C12_Routing ==
    /\ result # "Err" =>
          /\ sends = expected_sends(out)
          /\ publishers =
                {[id |-> n, name |-> registered_name(out, n)] :
                    n \in AdvertisedIds(out)}
    /\ (result = "Err" /\ out # <<>>) => sends = expected_sends(Front(out))

\* C12 happens: topic 100 was advertised under name 1 and again under
\* name 3, and the data frame that followed went to publisher 3
C12_Witness ==
    /\ Len(out) = 3
    /\ out[1] = OkSome(ID_PUBLISHER, <<100, 0, 1>>)
    /\ out[2] = OkSome(ID_PUBLISHER, <<100, 0, 3>>)
    /\ sends = <<[publisher |-> 3, id |-> 100, msg |-> <<7>>]>>
    /\ publishers = {[id |-> 100, name |-> 3]}

\* the step dispatches a TIME request
DispatchesTime == Dispatches /\ Dispatched.topic = ID_TIME

\* C13: TIME reply. For every inbound frame with topic id 10 the engine
\* writes exactly one regular frame with topic id 10 and an 8-byte payload
\* (sec, nsec) to the wire, and the reply is written before the next
\* inbound frame is dispatched: the step that dispatches the request adds
\* that one frame, well-formed, to the writes (when run goes on: a write
\* that fails ends run).
C13_TimeReply ==
    [][(DispatchesTime /\ pc' = "run") =>
        \E time \in WallTimes :
            tx' = Append(tx, valid_frame(RosSerialMsg(ID_TIME,
                                                      encode_time(time))))]_vars

\* run has returned Ok(()) at the end of a stream of valid frames
ReturnedAtEnd ==
    /\ pc = "done" /\ result = "Ok" /\ eof
    /\ \A i \in 1..Len(out) : out[i].tag = "Some"

\* some write to the serial line is a frame with this topic id and payload
\* (well-formed, or as encode makes it)
Written(topic_id, payload) ==
    \E j \in 1..Len(tx) :
        tx[j] \in {valid_frame(RosSerialMsg(topic_id, payload)),
                   encode(RosSerialMsg(topic_id, payload))}

\* C14: outbound forwarding. Every message that arrives from the network
\* on a subscribed topic is written to the serial line as a regular frame
\* whose topic id is the id of the subscription and whose payload is the
\* bytes of the message: when run has returned at the end of the stream,
\* each message the callback has put in the channel was written.
C14_OutboundForwarded ==
    ReturnedAtEnd =>
        \A e \in subscribers :
            \A i \in 1..Len(e.queue) : Written(e.id, e.queue[i])

\* run was called and has returned, or its future was dropped
RunIsOver == pc = "done" /\ tx # <<>>

\* C15: cleanup on return. When run returns (end of the stream,
\* cancellation or a fatal error) both registries are empty: every
\* publisher and subscription handle was released before control is back
\* with the caller.
C15_CleanupOnReturn == RunIsOver => (publishers = {} /\ subscribers = {})

\* the step dispatches an advertisement of a publisher or of a subscriber
\* whose TopicInfo decodes
DispatchesAdvert ==
    /\ Dispatches
    /\ Dispatched.topic \in {ID_PUBLISHER, ID_SUBSCRIBER}
    /\ topic_info_decodes(Dispatched.msg)

\* the registry the dispatched advertisement is for, after the step
RegistryOfAdvert ==
    IF Dispatched.topic = ID_PUBLISHER THEN publishers' ELSE subscribers'

\* C16: a registration failure is contained. If the adapter fails to
\* create the publisher or subscriber of an advertised topic, no registry
\* entry exists for that topic id afterwards, and the session continues:
\* run does not return because of the failure.
C16_RegistrationContained ==
    [][DispatchesAdvert =>
        /\ pc' # "done"
        /\ result' = "Err" =>
              ~\E e \in RegistryOfAdvert :
                  e.id = topic_info_decode(Dispatched.msg).topic_id]_vars

\* C17: ID_TX_STOP is ignored. An inbound frame with topic id 11 causes
\* no write to the serial line, no adapter send and no registry change,
\* and run goes on.
C17_TxStopIgnored ==
    [][(Dispatches /\ Dispatched.topic = 11) =>
        /\ UNCHANGED <<tx, sends, publishers, subscribers>>
        /\ pc' = "run"]_vars

\* the payloads of the data frames with topic id n among the items of the
\* stream, in the order of the stream
RECURSIVE received_payloads(_, _)
received_payloads(items, n) ==
    IF items = <<>> THEN <<>>
    ELSE LET f == items[Len(items)]
         IN  IF f.tag = "Some" /\ f.topic = n
             THEN Append(received_payloads(Front(items), n), f.msg)
             ELSE received_payloads(Front(items), n)

\* the payloads sent to the adapter for topic id n, in the order of the
\* sends
RECURSIVE sent_payloads(_, _)
sent_payloads(calls, n) ==
    IF calls = <<>> THEN <<>>
    ELSE LET c == calls[Len(calls)]
         IN  IF c.id = n
             THEN Append(sent_payloads(Front(calls), n), c.msg)
             ELSE sent_payloads(Front(calls), n)

\* a is b with some items left out: the items of a are in b, in order
RECURSIVE IsSubsequence(_, _)
IsSubsequence(a, b) ==
    IF a = <<>> THEN TRUE
    ELSE IF b = <<>> THEN FALSE
    ELSE IF Head(a) = Head(b) THEN IsSubsequence(Tail(a), Tail(b))
    ELSE IsSubsequence(a, Tail(b))

\* the topic ids of the sends
SentIds == {sends[i].id : i \in 1..Len(sends)}

QueueFull ==
    /\ pc = "subscribing"
    /\ \E e \in subscribers :
          e.id = subscribing_id /\ Len(e.queue) = MaxQueue

\* the step is a call of the subscription callback
CallbackStep == pc = "subscribing" /\ pc' = "subscribing"

\* C19: backpressure. When the bounded queue between the subscription
\* callback and the engine is full, the producer logs a drop and
\* proceeds: the message is not queued, a log record is written and the
\* callback does not wait.
C19_Backpressure ==
    [][(QueueFull /\ CallbackStep) =>
        /\ subscribers' = subscribers
        /\ send_errors' = send_errors + 1
        /\ blocked' = blocked]_vars

\* C20: the length is an unsigned 16-bit number. A well-formed version 2
\* frame with any payload length L in 0..65535 is decoded as a frame with
\* exactly L payload bytes once its 7 + L + 1 bytes are in the buffer:
\* lengths of 32768 and more are not taken for negative or oversized.
\* (Stated for the frames whose checksum byte is not zero.)
C20_UnsignedLength ==
    (scn.kind = "large" /\ ChecksumNotZero /\ Drained)
        => /\ out = <<OkSome(scn.frame.topic, zero_payload(scn.len))>>
           /\ src = <<>>

\* the step is a call of decode: nothing is read from the line
DecodeStep == pc = "stream" /\ wire' = wire /\ eof' = eof

\* the call has returned a frame or an error of the codec
ReturnsFrameOrError ==
    /\ Len(out') = Len(out) + 1
    /\ out'[Len(out')].tag \in {"Some"} \cup CodecErrors

\* C21: decoder progress. No call of decode adds bytes to the buffer, and
\* every call that returns a frame or a typed error has removed at least
\* two bytes from it; a call that returns neither is the 'incomplete'
\* result, after which decode is not called again until there is new
\* input. So the calls on a fixed finite buffer end after finitely many.
C21_DecoderProgress ==
    [][DecodeStep =>
        /\ Len(src') <= Len(src)
        /\ ReturnsFrameOrError => Len(src') + 2 <= Len(src)
        /\ ~ReturnsFrameOrError => ~is_readable']_vars

\* C21 happens: garbage and a damaged frame were given to decode, which
\* returned errors and then the 'incomplete' result on what was left
C21_Witness ==
    /\ scn.kind = "corrupt" /\ Drained
    /\ Len(out) >= 2
    /\ out[1].tag \in CodecErrors

=============================================================================
